---- MODULE Spec2Model ----
(***************************************************************************)
(* A model of src/src/plonk.rs: the TableData adapter, PlonkStructure,     *)
(* PlonkInstance / PlonkWitness, their relaxed variants, the two           *)
(* satisfiability checks, the two fold operations and the random-oracle    *)
(* absorption routines.                                                    *)
(*                                                                         *)
(* Scalars are the ring Z_P.  Curve points are written as the scalar       *)
(* multiple of one base point they are, so the group is Z_P too, with 0    *)
(* the identity.  Vectors are TLA+ sequences: code index i is element i+1. *)
(***************************************************************************)
EXTENDS Integers, Sequences, FiniteSets, TLC

\* ------------------------------------------------------------ bounds
P == 3             \* order of the scalar ring and of the point group
MaxK == 1          \* k ranges over 0..MaxK, so a table has 1 or 2 rows
MaxAdvice == 2     \* a circuit configures 1..MaxAdvice advice columns
MaxAssign == 1     \* cell assignments one synthesize run performs
MaxCross == 2      \* cross terms handed to one fold
MaxCrossVal == 1   \* entries of a cross-term vector range over 0..MaxCrossVal
MaxIo == 3         \* num_io handed to RelaxedPlonkInstance::new
MaxFolds == 1      \* fold steps of one run

F == 0 .. (P - 1)
\* an absent object, and the outcome of a call that panics
None == [none |-> TRUE]
Panic == [panic |-> TRUE]

\* ------------------------------------------------------- field, group
Add(a, b) == (a + b) % P
Mul(a, b) == (a * b) % P

RECURSIVE Pow(_, _)
\* r.pow([e, 0, 0, 0])
Pow(b, e) == IF e = 0 THEN 1 % P ELSE Mul(b, Pow(b, e - 1))

\* best_multiexp(&[s], &[pt]): the one-term multi-scalar multiplication
best_multiexp(s, pt) == Mul(s, pt)

\* C::identity() and CommitmentKey::default_value()
Identity == 0 % P
default_value == Identity

\* The commitment key's generator for position i: a unit of Z_P, so that a
\* change of one committed entry changes the commitment.
Gen(i) == IF i % 2 = 1 THEN 1 % P ELSE (P - 1) % P

RECURSIVE commitUpTo(_, _)
commitUpTo(v, n) ==
    IF n = 0 THEN Identity
    ELSE Add(commitUpTo(v, n - 1), best_multiexp(v[n], Gen(n)))

\* ck.commit(&v)
commit(v) == commitUpTo(v, Len(v))

Zeros(n) == [i \in 1 .. n |-> 0]
RECURSIVE Pow2(_)
Pow2(k) == IF k = 0 THEN 1 ELSE 2 * Pow2(k - 1)
Min(a, b) == IF a <= b THEN a ELSE b

RECURSIVE Flatten(_)
Flatten(cols) == IF cols = <<>> THEN <<>> ELSE Head(cols) \o Flatten(Tail(cols))

\* take(n) of an iterator over s
Take(s, n) == SubSeq(s, 1, Min(n, Len(s)))

\* ------------------------------------------- polynomial-relation engine
\* A polynomial is a sequence of monomials [c |-> coefficient, e |-> exponents],
\* e[v + 1] the exponent of variable v.  Variables: the fixed columns
\* 0 .. num_fixed-1, the advice columns after them, then y, then u.
NumVars(nf, na) == nf + na + 2
VarExp(nv, v) == [i \in 1 .. nv |-> IF i = v + 1 THEN 1 ELSE 0]
ExpSum(e1, e2) == [i \in 1 .. Len(e1) |-> e1[i] + e2[i]]

\* Expression::Sum of two expanded expressions
ExprSum(p, q) == p \o q
\* Expression::Product(acc, Polynomial(Query{index: v})) of an expanded expression
ExprProductVar(p, v) ==
    [i \in 1 .. Len(p) |->
        [c |-> p[i].c, e |-> ExpSum(p[i].e, VarExp(Len(p[i].e), v))]]

RECURSIVE CombineGates(_, _, _)
\* gates.fold(Constant(0), |acc, expr| Sum(expr, Product(acc, y))).expand(),
\* over the first n gate polynomials
CombineGates(gates, n, y) ==
    IF n = 0 THEN <<>>
    ELSE ExprSum(gates[n], ExprProductVar(CombineGates(gates, n - 1, y), y))

RECURSIVE SumFrom(_, _)
SumFrom(e, i) == IF i > Len(e) THEN 0 ELSE e[i] + SumFrom(e, i + 1)
\* degree of a monomial in the variables from `offset` on
MonoDegree(m, offset) == SumFrom(m.e, offset + 1)
RECURSIVE MaxDegree(_, _, _)
MaxDegree(p, n, offset) ==
    IF n = 0 THEN 0
    ELSE LET d == MonoDegree(p[n], offset)
             r == MaxDegree(p, n - 1, offset)
         IN  IF d > r THEN d ELSE r

\* MultiPolynomial::homogeneous(offset, u_index): every monomial padded with
\* u to the polynomial's degree
homogeneous(p, offset, u_index) ==
    LET D == MaxDegree(p, Len(p), offset) IN
    [i \in 1 .. Len(p) |->
        [c |-> p[i].c,
         e |-> [j \in 1 .. Len(p[i].e) |->
                  IF j = u_index + 1
                  THEN p[i].e[j] + (D - MonoDegree(p[i], offset))
                  ELSE p[i].e[j]]]]

\* The value of variable v at `row` (0-based) for structure S and the first
\* operand (U1, W1)
VarValue(v, row, S, U1, W1) ==
    LET nf == Len(S.fixed_columns)
        na == S.num_advice_columns
        nrow == Pow2(S.k)
    IN  IF v < nf THEN S.fixed_columns[v + 1][row + 1]
        ELSE IF v < nf + na THEN W1.W[(v - nf) * nrow + row + 1]
        ELSE IF v = nf + na THEN U1.y
        ELSE U1.u

RECURSIVE MonoValue(_, _, _, _, _, _)
MonoValue(m, n, row, S, U1, W1) ==
    IF n = 0 THEN m.c
    ELSE Mul(MonoValue(m, n - 1, row, S, U1, W1),
             Pow(VarValue(n - 1, row, S, U1, W1), m.e[n]))

RECURSIVE EvalUpTo(_, _, _, _, _, _)
EvalUpTo(p, n, row, S, U1, W1) ==
    IF n = 0 THEN 0
    ELSE Add(EvalUpTo(p, n - 1, row, S, U1, W1),
             MonoValue(p[n], Len(p[n].e), row, S, U1, W1))

\* MultiPolynomial::eval(row, S, U1, W1, U2, W2); the second operand is read
\* only by folded polynomials, which this module never builds
eval(p, row, S, U1, W1, U2, W2) == EvalUpTo(p, Len(p), row, S, U1, W1)

\* ------------------------------------------------------------ circuits
\* A circuit's configure(): one instance column, one fixed column q,
\* c advice columns a0 .. a(c-1); gates  a0*a0 - a0 + q*a0  and, with two or
\* more advice columns,  a(c-1) - a0.
Mono(c, vs, nv) ==
    [c |-> c % P, e |-> [i \in 1 .. nv |-> Cardinality({j \in DOMAIN vs : vs[j] = i - 1})]]
Configure(c) ==
    LET NumFixed == 1
        nv == NumVars(NumFixed, c)
        a0 == NumFixed
        al == NumFixed + c - 1
        g1 == << Mono(1, <<a0, a0>>, nv), Mono(P - 1, <<a0>>, nv), Mono(1, <<0, a0>>, nv) >>
        g2 == << Mono(1, <<al>>, nv), Mono(P - 1, <<a0>>, nv) >>
    IN  [num_fixed_columns |-> NumFixed,
         num_advice_columns |-> c,
         num_instance_columns |-> 1,
         gates |-> IF c >= 2 THEN <<g1, g2>> ELSE <<g1>>]
\* ConstraintSystem::default()
DefaultCs ==
    [num_fixed_columns |-> 0, num_advice_columns |-> 0,
     num_instance_columns |-> 0, gates |-> <<>>]

\* ----------------------------------------------------------- TableData
\* TableData::new(k, instance)
TableData_new(k, instance) ==
    [k |-> k, cs |-> DefaultCs, instance |-> instance,
     fixed |-> <<>>, advice |-> <<>>]

\* TableData::assembly up to the call of synthesize: configure, then the
\* zero-filled tables (the instance vector is replaced by two zeros)
assembly_begin(t, c) ==
    LET meta == Configure(c)
        n == Pow2(t.k)
    IN  [t EXCEPT !.fixed = [j \in 1 .. meta.num_fixed_columns |-> Zeros(n)],
                  !.instance = Zeros(2),
                  !.advice = [j \in 1 .. meta.num_advice_columns |-> Zeros(n)],
                  !.cs = meta]

\* whether get_mut(column).and_then(|v| v.get_mut(row)) finds the cell
CellExists(table, column, row) ==
    column + 1 \in DOMAIN table /\ row + 1 \in DOMAIN table[column + 1]
SetCell(table, column, row, v) ==
    [table EXCEPT ![column + 1] = [@ EXCEPT ![row + 1] = v]]

\* util::batch_invert_assigned on cells that hold plain field values
batch_invert_assigned(table) == table

\* resize(n, ZERO) of one column
Resize(col, n) == [i \in 1 .. n |-> IF i <= Len(col) THEN col[i] ELSE 0]

\* TableData::plonk_witness; Panic where its assert fails
plonk_witness(t) ==
    IF t.advice = <<>> THEN Panic
    ELSE LET advice_columns == batch_invert_assigned(t.advice)
             n == Pow2(t.k)
         IN  [num_advice_columns |-> Len(t.advice[1]),
              W |-> Flatten([j \in 1 .. Len(advice_columns) |->
                               Resize(advice_columns[j], n)])]

\* TableData::plonk_instance; Panic where an assert fails
plonk_instance(t) ==
    LET w == plonk_witness(t) IN
    IF w = Panic \/ Len(t.instance) < 2 THEN Panic
    ELSE [W_commitment |-> commit(w.W),
          instance |-> Take(t.instance, 2),
          y |-> 1 % P]

\* TableData::plonk_structure
plonk_structure(t) ==
    LET fixed_columns == batch_invert_assigned(t.fixed)
        num_fixed == t.cs.num_fixed_columns
        num_advice == t.cs.num_advice_columns
        y == num_fixed + num_advice
    IN  [k |-> t.k,
         fixed_columns |-> fixed_columns,
         num_advice_columns |-> t.cs.num_advice_columns,
         gate |-> CombineGates(t.cs.gates, Len(t.cs.gates), y),
         fixed_commitment |-> commit(Flatten(fixed_columns))]

\* TableData::query_instance(column 0, row): the value, or BoundsFailure
query_instance(t, row) ==
    IF row + 1 \in DOMAIN t.instance
    THEN [ok |-> TRUE, value |-> t.instance[row + 1]]
    ELSE [ok |-> FALSE, err |-> "BoundsFailure"]

\* ----------------------------------------- instances and witnesses
\* PlonkInstance::to_relax
to_relax_instance(U) ==
    [W_commitment |-> U.W_commitment,
     instance |-> U.instance,
     E_commitment |-> Identity,
     u |-> 1 % P,
     y |-> U.y]

\* RelaxedPlonkInstance::new(num_io)
RelaxedPlonkInstance_new(num_io) ==
    [W_commitment |-> default_value,
     instance |-> Zeros(num_io),
     E_commitment |-> default_value,
     u |-> 1 % P,
     y |-> 1 % P]

\* PlonkWitness::to_relax; the length of E is len(W) / num_advice_columns
\* (integer division; Panic on a zero divisor)
to_relax_witness(W) ==
    IF W.num_advice_columns = 0 THEN Panic
    ELSE [num_advice_columns |-> W.num_advice_columns,
          W |-> W.W,
          E |-> Zeros(Len(W.W) \div W.num_advice_columns)]

\* RelaxedPlonkWitness::new(k, nc)
RelaxedPlonkWitness_new(k, nc) ==
    [num_advice_columns |-> nc,
     W |-> Zeros(Pow2(k) * nc),
     E |-> Zeros(Pow2(k))]

\* ------------------------------------------------- data-parallel loops
\* A schedule of the worker pool: the order in which the n independent items
\* of a parallel iterator are processed (a rotation, forwards or backwards;
\* for n <= 2 these are all the orders).
Schedules == [rot : 0 .. 1, rev : BOOLEAN]
SeqSchedule == [rot |-> 0, rev |-> FALSE]
Order(sched, n) ==
    [j \in 1 .. n |->
        ((sched.rot + (IF sched.rev THEN n - j ELSE j - 1)) % n) + 1]

RECURSIVE CollectInCompletionOrder(_, _, _)
CollectInCompletionOrder(vals, order, j) ==
    IF j = 0 THEN <<>>
    ELSE Append(CollectInCompletionOrder(vals, order, j - 1), vals[order[j]])
\* a collect() that keeps the items in the order the workers finish them
par_collect_unordered(vals, sched) ==
    CollectInCompletionOrder(vals, Order(sched, Len(vals)), Len(vals))

RECURSIVE CollectUpTo(_, _, _)
\* collect() of an indexed parallel iterator: the item computed for input
\* index i is written to slot i, whenever it is computed
CollectUpTo(vals, order, j) ==
    IF j = 0 THEN [i \in 1 .. Len(vals) |-> None]
    ELSE [CollectUpTo(vals, order, j - 1) EXCEPT ![order[j]] = vals[order[j]]]
par_collect(vals, sched) ==
    CollectUpTo(vals, Order(sched, Len(vals)), Len(vals))

RECURSIVE CountUpTo(_, _, _)
\* filter(..).count() of a parallel iterator: hits[i] says whether item i
\* passes the filter
CountUpTo(hits, order, j) ==
    IF j = 0 THEN 0
    ELSE CountUpTo(hits, order, j - 1) + (IF hits[order[j]] THEN 1 ELSE 0)
par_count(hits, sched) ==
    CountUpTo(hits, Order(sched, Len(hits)), Len(hits))

\* ------------------------------------------------------------- folding
RECURSIVE comm_E_fold_from_r0(_, _, _, _)
\* the weights taken as r^k, the first one r^0
comm_E_fold_from_r0(E_commitment, commits, n, r) ==
    IF n = 0 THEN E_commitment
    ELSE Add(comm_E_fold_from_r0(E_commitment, commits, n - 1, r),
             best_multiexp(Pow(r, n - 1), commits[n]))

RECURSIVE comm_E_fold(_, _, _, _)
\* cross_term_commits.iter().enumerate().map(|(k, tk)| r^(k+1) * tk)
\*     .fold(E_commitment, |acc, x| acc + x), over the first n commitments
comm_E_fold(E_commitment, commits, n, r) ==
    IF n = 0 THEN E_commitment
    ELSE Add(comm_E_fold(E_commitment, commits, n - 1, r),
             best_multiexp(Pow(r, (n - 1) + 1), commits[n]))

\* the fresh W_commitment added without the factor r
fold_instance_unscaled(self, U2, cross_term_commits, r, sched) ==
    LET n == Min(Len(self.instance), Len(U2.instance)) IN
    [W_commitment |-> Add(self.W_commitment, U2.W_commitment),
     instance |-> par_collect(
         [i \in 1 .. n |-> Add(self.instance[i], Mul(r, U2.instance[i]))], sched),
     E_commitment |->
         comm_E_fold(self.E_commitment, cross_term_commits, Len(cross_term_commits), r),
     u |-> Add(self.u, r),
     y |-> Add(self.y, Mul(r, U2.y))]

\* RelaxedPlonkInstance::fold(&self, U2, cross_term_commits, r)
fold_instance(self, U2, cross_term_commits, r, sched) ==
    LET n == Min(Len(self.instance), Len(U2.instance)) IN
    [W_commitment |-> Add(self.W_commitment, best_multiexp(r, U2.W_commitment)),
     instance |-> par_collect(
         [i \in 1 .. n |-> Add(self.instance[i], Mul(r, U2.instance[i]))], sched),
     E_commitment |->
         comm_E_fold(self.E_commitment, cross_term_commits, Len(cross_term_commits), r),
     u |-> Add(self.u, r),
     y |-> Add(self.y, Mul(r, U2.y))]

RECURSIVE E_fold(_, _, _, _, _)
\* cross_terms.iter().fold(*ei, |acc, tk| { r_power *= r; acc + r_power * tk[i] })
\* over the first n cross terms: the accumulator and r_power after them
E_fold(ei, cross_terms, n, r, i) ==
    IF n = 0 THEN [acc |-> ei, r_power |-> 1 % P]
    ELSE LET prev == E_fold(ei, cross_terms, n - 1, r, i)
             r_power == Mul(prev.r_power, r)
         IN  [acc |-> Add(prev.acc, Mul(r_power, cross_terms[n][i])),
              r_power |-> r_power]

\* RelaxedPlonkWitness::fold(&self, W2, cross_terms, r); Panic where tk[i]
\* is out of bounds
fold_witness(self, W2, cross_terms, r, sched) ==
    LET n == Min(Len(self.W), Len(W2.W)) IN
    IF \E t \in DOMAIN cross_terms : Len(cross_terms[t]) < Len(self.E) THEN Panic
    ELSE
    [W |-> par_collect([i \in 1 .. n |-> Add(self.W[i], Mul(r, W2.W[i]))], sched),
     num_advice_columns |-> self.num_advice_columns,
     E |-> par_collect(
         [i \in 1 .. Len(self.E) |->
             E_fold(self.E[i], cross_terms, Len(cross_terms), r, i).acc], sched)]

\* ------------------------------------------------------ satisfiability
IsSatError == "plonk relation not satisfied"

\* the rows on which the gate does not vanish, counted as is_sat counts them
is_sat_count(S, U, W, sched) ==
    LET nrow == Pow2(S.k)
        U2 == RelaxedPlonkInstance_new(Len(U.instance))
        W2 == RelaxedPlonkWitness_new(S.k, S.num_advice_columns)
    IN  par_count(
          [i \in 1 .. nrow |->
             eval(S.gate, i - 1, S, to_relax_instance(U), to_relax_witness(W), U2, W2) # 0],
          sched)

\* is_sat without its commitment comparison
is_sat_relation_only(S, U, W, sched) ==
    IF is_sat_count(S, U, W, sched) = 0
    THEN [ok |-> TRUE]
    ELSE [ok |-> FALSE, err |-> IsSatError]

\* PlonkStructure::is_sat(ck, U, W)
is_sat(S, U, W, sched) ==
    LET res == is_sat_count(S, U, W, sched) IN
    IF U.W_commitment = commit(W.W) /\ res = 0
    THEN [ok |-> TRUE]
    ELSE [ok |-> FALSE, err |-> IsSatError]

\* the rows whose homogeneous evaluation differs from E[row], counted as
\* is_sat_relaxed counts them (every W.E[i] read must exist)
is_sat_relaxed_count(S, U, W, sched) ==
    LET nrow == Pow2(S.k)
        U2 == RelaxedPlonkInstance_new(Len(U.instance))
        W2 == RelaxedPlonkWitness_new(S.k, S.num_advice_columns)
        num_fixed == Len(S.fixed_columns)
        u_index == num_fixed + S.num_advice_columns + 1
        poly == homogeneous(S.gate, num_fixed, u_index)
    IN  par_count(
          [i \in 1 .. nrow |-> W.E[i] # eval(poly, i - 1, S, U, W, U2, W2)],
          sched)

\* is_sat_relaxed without its comparison of the E commitment
is_sat_relaxed_no_E(S, U, W, sched) ==
    LET nrow == Pow2(S.k)
        res == is_sat_relaxed_count(S, U, W, sched)
        actual_W_commit == commit(W.W)
    IN  IF Len(W.E) < nrow THEN Panic
        ELSE IF res = 0 /\ U.W_commitment = actual_W_commit THEN [ok |-> TRUE]
        ELSE IF res # 0 THEN
            [ok |-> FALSE, err |-> "relaxed plonk relation not satisfied",
             rows |-> res, out_of |-> nrow]
        ELSE
            [ok |-> FALSE, err |-> "commitment of witness W is not match",
             expected |-> U.W_commitment, actual |-> actual_W_commit]

\* is_sat_relaxed with the match arms of the two single mismatches exchanged
is_sat_relaxed_swapped(S, U, W, sched) ==
    LET nrow == Pow2(S.k)
        res == is_sat_relaxed_count(S, U, W, sched)
        actual_W_commit == commit(W.W)
        actual_E_commit == commit(W.E)
        okW == U.W_commitment = actual_W_commit
        okE == U.E_commitment = actual_E_commit
    IN  IF Len(W.E) < nrow THEN Panic
        ELSE IF res = 0 /\ okW /\ okE THEN [ok |-> TRUE]
        ELSE IF res # 0 THEN
            [ok |-> FALSE, err |-> "relaxed plonk relation not satisfied",
             rows |-> res, out_of |-> nrow]
        ELSE IF ~okW /\ ~okE THEN
            [ok |-> FALSE, err |-> "both commitment of witnesses W & E is not match",
             W_expected |-> U.W_commitment, W_actual |-> actual_W_commit,
             E_expected |-> U.E_commitment, E_actual |-> actual_E_commit]
        ELSE IF ~okE THEN
            [ok |-> FALSE, err |-> "commitment of witness W is not match",
             expected |-> U.W_commitment, actual |-> actual_W_commit]
        ELSE
            [ok |-> FALSE, err |-> "commitment of witness E is not match",
             expected |-> U.E_commitment, actual |-> actual_E_commit]

\* PlonkStructure::is_sat_relaxed(ck, U, W)
is_sat_relaxed(S, U, W, sched) ==
    LET nrow == Pow2(S.k)
        res == is_sat_relaxed_count(S, U, W, sched)
        actual_W_commit == commit(W.W)
        actual_E_commit == commit(W.E)
        okW == U.W_commitment = actual_W_commit
        okE == U.E_commitment = actual_E_commit
    IN  IF Len(W.E) < nrow THEN Panic   \* W.E[i] out of bounds
        ELSE IF res = 0 /\ okW /\ okE THEN [ok |-> TRUE]
        ELSE IF res # 0 THEN
            [ok |-> FALSE, err |-> "relaxed plonk relation not satisfied",
             rows |-> res, out_of |-> nrow]
        ELSE IF ~okW /\ ~okE THEN
            [ok |-> FALSE, err |-> "both commitment of witnesses W & E is not match",
             W_expected |-> U.W_commitment, W_actual |-> actual_W_commit,
             E_expected |-> U.E_commitment, E_actual |-> actual_E_commit]
        ELSE IF ~okW THEN
            [ok |-> FALSE, err |-> "commitment of witness W is not match",
             expected |-> U.W_commitment, actual |-> actual_W_commit]
        ELSE
            [ok |-> FALSE, err |-> "commitment of witness E is not match",
             expected |-> U.E_commitment, actual |-> actual_E_commit]

\* ---------------------------------------------------------- absorption
\* util::fe_to_fe: the scalar read as an element of the oracle's base field
fe_to_fe(x) == x
absorb_point(ro, pt) == Append(ro, <<"point", pt>>)
absorb_base(ro, x) == Append(ro, <<"base", x>>)

RECURSIVE absorb_bases(_, _, _)
\* for inst in xs (the first n of them) { ro.absorb_base(fe_to_fe(*inst)) }
absorb_bases(ro, xs, n) ==
    IF n = 0 THEN ro
    ELSE absorb_base(absorb_bases(ro, xs, n - 1), fe_to_fe(xs[n]))

\* <PlonkStructure as AbsorbInRO>::absorb_into
absorb_into_structure(S, ro) == absorb_point(ro, S.fixed_commitment)

\* <PlonkInstance as AbsorbInRO>::absorb_into
absorb_into_instance(U, ro) ==
    LET first == Take(U.instance, 2) IN
    absorb_bases(absorb_point(ro, U.W_commitment), first, Len(first))

\* the relaxed absorption with E_commitment absorbed before u
absorb_into_relaxed_E_first(U, ro) ==
    LET first == Take(U.instance, 2)
        ro1 == absorb_bases(absorb_point(ro, U.W_commitment), first, Len(first))
    IN  absorb_base(absorb_point(ro1, U.E_commitment), fe_to_fe(U.u))

\* <RelaxedPlonkInstance as AbsorbInRO>::absorb_into
absorb_into_relaxed(U, ro) ==
    LET first == Take(U.instance, 2)
        ro1 == absorb_bases(absorb_point(ro, U.W_commitment), first, Len(first))
    IN  absorb_point(absorb_base(ro1, fe_to_fe(U.u)), U.E_commitment)

\* ---------------------------------------------------------- error kinds
\* The kind of error a message reports
ErrorKind(err) ==
    CASE err = "plonk relation not satisfied" -> "RelationViolated"
      [] err = "relaxed plonk relation not satisfied" -> "RelationViolated"
      [] err = "commitment of witness W is not match" -> "CommitmentMismatchW"
      [] err = "commitment of witness E is not match" -> "CommitmentMismatchE"
      [] err = "both commitment of witnesses W & E is not match" -> "CommitmentMismatchBoth"
      [] OTHER -> "Other"

\* --------------------------------------------------------------- state
VARIABLES
    td,       \* the TableData
    phase,    \* "new", "synth" (inside assembly's synthesize), "ok" or "err"
    nassign,  \* cell assignments made by the running synthesize
    S,        \* the PlonkStructure derived from td, or None
    U,        \* the PlonkInstance derived from td, or None
    W,        \* the PlonkWitness derived from td, or None
    RU,       \* the accumulator's RelaxedPlonkInstance, or None
    RW,       \* the accumulator's RelaxedPlonkWitness, or None
    nfolds,   \* fold steps taken
    last      \* the last call observed: its name, arguments and result

vars == <<td, phase, nassign, S, U, W, RU, RW, nfolds, last>>

Ks == 0 .. MaxK
PublicInputs == UNION {[1 .. n -> F] : n \in 1 .. 2}
CrossVals == 0 .. Min(MaxCrossVal, P - 1)
CrossTermLists(n) == UNION {[1 .. d -> [1 .. n -> CrossVals]] : d \in 0 .. MaxCross}
CommitLists == UNION {[1 .. d -> F] : d \in 0 .. MaxCross}

\* W with one entry changed
Tampered(w) ==
    IF w = None THEN {}
    ELSE {[w EXCEPT !.W = [@ EXCEPT ![i] = v]] : i \in DOMAIN w.W, v \in F} \ {w}

Init ==
    /\ \E k \in Ks, instance \in PublicInputs : td = TableData_new(k, instance)
    /\ phase = "new"
    /\ nassign = 0
    /\ S = None /\ U = None /\ W = None /\ RU = None /\ RW = None
    /\ nfolds = 0
    /\ last = [op |-> "new"]

\* TableData::assembly, up to its call of synthesize
Assembly(c) ==
    /\ phase = "new"
    /\ td' = assembly_begin(td, c)
    /\ phase' = "synth"
    /\ last' = [op |-> "assembly"]
    /\ UNCHANGED <<nassign, S, U, W, RU, RW, nfolds>>

\* <TableData as Assignment>::assign_advice, called by synthesize; a
\* BoundsFailure ends synthesize, and with it assembly, with that error
AssignAdvice(column, row, to) ==
    /\ phase = "synth" /\ nassign < MaxAssign
    /\ IF CellExists(td.advice, column, row)
       THEN /\ td' = [td EXCEPT !.advice = SetCell(@, column, row, to)]
            /\ phase' = phase
       ELSE /\ td' = td
            /\ phase' = "err"
    /\ nassign' = nassign + 1
    /\ last' = [op |-> "assign_advice"]
    /\ UNCHANGED <<S, U, W, RU, RW, nfolds>>

\* <TableData as Assignment>::assign_fixed
AssignFixed(column, row, to) ==
    /\ phase = "synth" /\ nassign < MaxAssign
    /\ IF CellExists(td.fixed, column, row)
       THEN /\ td' = [td EXCEPT !.fixed = SetCell(@, column, row, to)]
            /\ phase' = phase
       ELSE /\ td' = td
            /\ phase' = "err"
    /\ nassign' = nassign + 1
    /\ last' = [op |-> "assign_fixed"]
    /\ UNCHANGED <<S, U, W, RU, RW, nfolds>>

\* <TableData as Assignment>::query_instance, called by synthesize
QueryInstance(row) ==
    /\ phase = "synth"
    /\ last' = [op |-> "query_instance", row |-> row, out |-> query_instance(td, row)]
    /\ UNCHANGED <<td, phase, nassign, S, U, W, RU, RW, nfolds>>

\* synthesize returns Ok, and assembly with it
AssemblyOk ==
    /\ phase = "synth"
    /\ phase' = "ok"
    /\ last' = [op |-> "assembly_ok"]
    /\ UNCHANGED <<td, nassign, S, U, W, RU, RW, nfolds>>

Assembled == phase \in {"ok", "err"}

PlonkStructure ==
    /\ Assembled /\ S = None
    /\ S' = plonk_structure(td)
    /\ last' = [op |-> "plonk_structure"]
    /\ UNCHANGED <<td, phase, nassign, U, W, RU, RW, nfolds>>

PlonkInstance ==
    /\ S # None /\ U = None
    /\ U' = plonk_instance(td)
    /\ last' = [op |-> "plonk_instance"]
    /\ UNCHANGED <<td, phase, nassign, S, W, RU, RW, nfolds>>

PlonkWitness ==
    /\ U # None /\ W = None
    /\ W' = plonk_witness(td)
    /\ last' = [op |-> "plonk_witness"]
    /\ UNCHANGED <<td, phase, nassign, S, U, RU, RW, nfolds>>

ToRelaxInstance ==
    /\ W # None /\ RU = None
    /\ RU' = to_relax_instance(U)
    /\ last' = [op |-> "to_relax_instance"]
    /\ UNCHANGED <<td, phase, nassign, S, U, W, RW, nfolds>>

NewRelaxedInstance(num_io) ==
    /\ W # None /\ RU = None
    /\ RU' = RelaxedPlonkInstance_new(num_io)
    /\ last' = [op |-> "new_relaxed_instance"]
    /\ UNCHANGED <<td, phase, nassign, S, U, W, RW, nfolds>>

ToRelaxWitness ==
    /\ RU # None /\ RW = None
    /\ RW' = to_relax_witness(W)
    /\ last' = [op |-> "to_relax_witness"]
    /\ UNCHANGED <<td, phase, nassign, S, U, W, RU, nfolds>>

NewRelaxedWitness ==
    /\ RU # None /\ RW = None
    /\ RW' = RelaxedPlonkWitness_new(S.k, S.num_advice_columns)
    /\ last' = [op |-> "new_relaxed_witness"]
    /\ UNCHANGED <<td, phase, nassign, S, U, W, RU, nfolds>>

\* RelaxedPlonkInstance::fold alone (the verifier's half)
FoldInstance(r, cross_term_commits, sched) ==
    /\ RW # None /\ nfolds < MaxFolds
    /\ RU' = fold_instance(RU, U, cross_term_commits, r, sched)
    /\ nfolds' = nfolds + 1
    /\ last' = [op |-> "fold_instance", self |-> RU, U2 |-> U, r |-> r,
                cross_term_commits |-> cross_term_commits, out |-> RU']
    /\ UNCHANGED <<td, phase, nassign, S, U, W, RW>>

\* The prover's step: RelaxedPlonkWitness::fold on the raw vectors and
\* RelaxedPlonkInstance::fold on their commitments, with the same r
FoldPair(r, cross_terms, sched) ==
    LET cross_term_commits == [t \in DOMAIN cross_terms |-> commit(cross_terms[t])]
        outW == fold_witness(RW, W, cross_terms, r, sched)
        outU == fold_instance(RU, U, cross_term_commits, r, sched)
    IN  /\ RW # None /\ nfolds < MaxFolds
        /\ IF outW = Panic
           THEN UNCHANGED <<RU, RW>>
           ELSE RU' = outU /\ RW' = outW
        /\ nfolds' = nfolds + 1
        /\ last' = [op |-> "fold_pair", self |-> RU, selfW |-> RW, U2 |-> U, W2 |-> W,
                    r |-> r, cross_terms |-> cross_terms,
                    cross_term_commits |-> cross_term_commits,
                    out |-> outU, outW |-> outW]
        /\ UNCHANGED <<td, phase, nassign, S, U, W>>

\* PlonkStructure::is_sat on the instance and a witness: the derived one, or
\* it with one entry changed since the instance was built.  The fresh pair
\* is checked and absorbed before the accumulator is set up.
IsSat(w, sched) ==
    /\ W # None /\ RU = None
    /\ last' = [op |-> "is_sat", W |-> w, count |-> is_sat_count(S, U, w, sched),
                out |-> is_sat(S, U, w, sched)]
    /\ UNCHANGED <<td, phase, nassign, S, U, W, RU, RW, nfolds>>

\* PlonkStructure::is_sat_relaxed on the accumulator
IsSatRelaxed(sched) ==
    /\ RW # None
    /\ last' = [op |-> "is_sat_relaxed",
                count |-> IF Len(RW.E) < Pow2(S.k) THEN -1
                          ELSE is_sat_relaxed_count(S, RU, RW, sched),
                out |-> is_sat_relaxed(S, RU, RW, sched)]
    /\ UNCHANGED <<td, phase, nassign, S, U, W, RU, RW, nfolds>>

AbsorbStructure ==
    /\ S # None /\ RU = None
    /\ last' = [op |-> "absorb_structure", obj |-> S,
                ro |-> absorb_into_structure(S, <<>>)]
    /\ UNCHANGED <<td, phase, nassign, S, U, W, RU, RW, nfolds>>

AbsorbInstance ==
    /\ U # None /\ RU = None
    /\ last' = [op |-> "absorb_instance", obj |-> U,
                ro |-> absorb_into_instance(U, <<>>)]
    /\ UNCHANGED <<td, phase, nassign, S, U, W, RU, RW, nfolds>>

AbsorbRelaxed ==
    /\ RU # None
    /\ last' = [op |-> "absorb_relaxed", obj |-> RU,
                ro |-> absorb_into_relaxed(RU, <<>>)]
    /\ UNCHANGED <<td, phase, nassign, S, U, W, RU, RW, nfolds>>

Next ==
    \/ \E c \in 1 .. MaxAdvice : Assembly(c)
    \/ AssemblyOk
    \/ \E column \in 0 .. MaxAdvice, row \in 0 .. Pow2(MaxK), to \in F :
           AssignAdvice(column, row, to)
    \/ \E column \in 0 .. 1, row \in 0 .. Pow2(MaxK), to \in F :
           AssignFixed(column, row, to)
    \/ \E row \in 0 .. 2 : QueryInstance(row)
    \/ PlonkStructure
    \/ PlonkInstance
    \/ PlonkWitness
    \/ ToRelaxInstance
    \/ \E num_io \in 1 .. MaxIo : NewRelaxedInstance(num_io)
    \/ ToRelaxWitness
    \/ NewRelaxedWitness
    \/ \E r \in F, commits \in CommitLists, sched \in Schedules :
           FoldInstance(r, commits, sched)
    \/ \E r \in F, sched \in Schedules, cross_terms \in CrossTermLists(Pow2(td.k)) :
           FoldPair(r, cross_terms, sched)
    \/ \E sched \in Schedules, w \in {W} \cup Tampered(W) : IsSat(w, sched)
    \/ \E sched \in Schedules : IsSatRelaxed(sched)
    \/ AbsorbStructure
    \/ AbsorbInstance
    \/ AbsorbRelaxed

Spec == Init /\ [][Next]_vars

\* ============================================================== claims
Ok == [ok |-> TRUE]
NRows == Pow2(td.k)
\* the binding invariant of a relaxed pair
Consistent(u, w) ==
    u.W_commitment = commit(w.W) /\ u.E_commitment = commit(w.E)

\* C1: a paired fold (same r, cross_term_commits[k] = commit(cross_terms[k]))
\* of a commitment-consistent accumulator with a commitment-consistent fresh
\* pair yields a commitment-consistent accumulator.
C1_PairedFoldKeepsCommitments ==
    (/\ last.op = "fold_pair"
     /\ last.outW # Panic
     /\ Consistent(last.self, last.selfW)
     /\ last.U2.W_commitment = commit(last.W2.W))
    => Consistent(last.out, last.outW)

\* C2: is_sat_relaxed on the lifted pair returns Ok exactly when is_sat on
\* the pair does.
C2_LiftPreservation ==
    (/\ last.op = "is_sat_relaxed"
     /\ RU = to_relax_instance(U)
     /\ RW = to_relax_witness(W))
    => (last.out = Ok <=> is_sat(S, U, W, SeqSchedule) = Ok)

\* C8: every witness has num_advice_columns = c (the circuit's advice
\* columns) and len(W) = num_advice_columns * 2^k, and every relaxed witness
\* has len(E) = 2^k.
C8_WitnessShape ==
    /\ W # None =>
          /\ W.num_advice_columns = td.cs.num_advice_columns
          /\ Len(W.W) = W.num_advice_columns * NRows
    /\ RW # None =>
          /\ RW.num_advice_columns = td.cs.num_advice_columns
          /\ Len(RW.W) = RW.num_advice_columns * NRows
          /\ Len(RW.E) = NRows

IsInstanceFold == last.op \in {"fold_instance", "fold_pair"}

\* C3 as stated: a fold with r = 0 returns the accumulator, the instance
\* vector with the same length and the same values.
C3_NeutralFoldWhole ==
    (IsInstanceFold /\ last.r = 0) => last.out = last.self

\* C3 as amended: a fold with r = 0 keeps W_commitment, u, y and
\* E_commitment, and keeps the first min(len(relaxed.instance),
\* len(fresh.instance)) instance values, dropping the others; the instance
\* vector is unchanged whenever it is no longer than the fresh one.
C3_NeutralFold ==
    (IsInstanceFold /\ last.r = 0) =>
        /\ last.out.W_commitment = last.self.W_commitment
        /\ last.out.u = last.self.u
        /\ last.out.y = last.self.y
        /\ last.out.E_commitment = last.self.E_commitment
        /\ last.out.instance = Take(last.self.instance, Len(last.U2.instance))
        /\ (Len(last.self.instance) <= Len(last.U2.instance)
               => last.out.instance = last.self.instance)

\* a neutral fold of a fresh commitment and cross-term commitments that are
\* not the identity, onto an accumulator with three instance values
C3_Witness ==
    /\ last.op = "fold_instance" /\ last.r = 0
    /\ last.U2.W_commitment # Identity
    /\ \E t \in DOMAIN last.cross_term_commits : last.cross_term_commits[t] # Identity
    /\ Len(last.self.instance) = 3
    /\ Len(last.out.instance) = 2

IsTamperedCall ==
    /\ last.op = "is_sat"
    /\ U.W_commitment = commit(W.W)
    /\ last.W \in Tampered(W)

\* C4 as stated: is_sat on a witness with one entry changed since the
\* instance was built fails with an error of the CommitmentMismatchW kind.
C4_TamperReportedAsMismatchW ==
    IsTamperedCall =>
        /\ last.out.ok = FALSE
        /\ ErrorKind(last.out.err) = "CommitmentMismatchW"

\* C4 as amended: is_sat on a witness with one entry changed since the
\* instance was built fails, also when the gate vanishes on every row; the
\* error is is_sat's only one, that of a relation violation.
C4_TamperRejected ==
    IsTamperedCall =>
        /\ last.out = [ok |-> FALSE, err |-> IsSatError]
        /\ ErrorKind(last.out.err) = "RelationViolated"

\* a tampered witness on which the gate still vanishes on every row
C4_Witness ==
    /\ IsTamperedCall
    /\ last.count = 0
    /\ \A row \in 0 .. NRows - 1 :
          eval(S.gate, row, S, to_relax_instance(U), last.W, None, None) = 0
    /\ last.out.ok = FALSE

\* the three checks of is_sat_relaxed on the accumulator
HomogeneousGate ==
    homogeneous(S.gate, Len(S.fixed_columns),
                Len(S.fixed_columns) + S.num_advice_columns + 1)
RowMatches(row) ==
    /\ row + 1 \in DOMAIN RW.E
    /\ eval(HomogeneousGate, row, S, RU, RW, None, None) = RW.E[row + 1]
RelationHolds == \A row \in 0 .. NRows - 1 : RowMatches(row)
FailingRows == {row \in 0 .. NRows - 1 : ~RowMatches(row)}
WCommitmentMatches == RU.W_commitment = commit(RW.W)
ECommitmentMatches == RU.E_commitment = commit(RW.E)

\* C5: is_sat_relaxed returns Ok exactly when the relation holds on every
\* row and both commitments match; otherwise it returns an error (or panics
\* where E has no entry for a row).
C5_OkIffAllThree ==
    last.op = "is_sat_relaxed" =>
        /\ last.out = Ok <=> (RelationHolds /\ WCommitmentMatches /\ ECommitmentMatches)
        /\ last.out # Ok => (last.out = Panic \/ last.out.ok = FALSE)

\* only the E commitment fails, and the result is an error
C5_Witness ==
    /\ last.op = "is_sat_relaxed"
    /\ RelationHolds /\ WCommitmentMatches /\ ~ECommitmentMatches
    /\ last.out # Panic /\ last.out.ok = FALSE

RelationError ==
    [ok |-> FALSE, err |-> "relaxed plonk relation not satisfied",
     rows |-> Cardinality(FailingRows), out_of |-> NRows]
MismatchWError ==
    [ok |-> FALSE, err |-> "commitment of witness W is not match",
     expected |-> RU.W_commitment, actual |-> commit(RW.W)]
MismatchEError ==
    [ok |-> FALSE, err |-> "commitment of witness E is not match",
     expected |-> RU.E_commitment, actual |-> commit(RW.E)]
MismatchBothError ==
    [ok |-> FALSE, err |-> "both commitment of witnesses W & E is not match",
     W_expected |-> RU.W_commitment, W_actual |-> commit(RW.W),
     E_expected |-> RU.E_commitment, E_actual |-> commit(RW.E)]
KindsDistinct ==
    Cardinality({ErrorKind(e.err) :
        e \in {RelationError, MismatchWError, MismatchEError, MismatchBothError}}) = 4

\* C6 as stated: each failing check is reported: a relation failure with
\* the number of failing rows and 2^k, a W mismatch, an E mismatch and both
\* as three more errors that name W, E or both and carry the stored and the
\* recomputed commitments.
C6_EachCheckReported ==
    (last.op = "is_sat_relaxed" /\ last.out # Panic) =>
        /\ ~RelationHolds => last.out = RelationError
        /\ (~WCommitmentMatches /\ ECommitmentMatches) =>
               ErrorKind(last.out.err) = "CommitmentMismatchW"
        /\ (WCommitmentMatches /\ ~ECommitmentMatches) =>
               ErrorKind(last.out.err) = "CommitmentMismatchE"
        /\ (~WCommitmentMatches /\ ~ECommitmentMatches) =>
               ErrorKind(last.out.err) = "CommitmentMismatchBoth"

\* C6 as amended: a relation failure is reported alone, with the number of
\* failing rows and 2^k, whatever the commitments; only when the relation
\* holds on every row are a W mismatch, an E mismatch and both reported, as
\* three different errors that carry the stored and recomputed commitments.
C6_ChecksReported ==
    (last.op = "is_sat_relaxed" /\ last.out # Panic) =>
        /\ KindsDistinct
        /\ ~RelationHolds => last.out = RelationError
        /\ (RelationHolds /\ ~WCommitmentMatches /\ ECommitmentMatches) =>
               last.out = MismatchWError
        /\ (RelationHolds /\ WCommitmentMatches /\ ~ECommitmentMatches) =>
               last.out = MismatchEError
        /\ (RelationHolds /\ ~WCommitmentMatches /\ ~ECommitmentMatches) =>
               last.out = MismatchBothError

\* the relation fails on a row and the W commitment does not match: only
\* the relation failure is reported
C6_Witness ==
    /\ last.op = "is_sat_relaxed" /\ last.out # Panic
    /\ ~RelationHolds /\ ~WCommitmentMatches
    /\ last.out = RelationError
    /\ Cardinality(FailingRows) < NRows

Point(pt) == <<"point", pt>>
Base(x) == <<"base", x>>

\* C7 as stated: the structure absorbs exactly fixed_commitment; an instance
\* exactly W_commitment, instance[0], instance[1]; a relaxed instance
\* exactly W_commitment, instance[0], instance[1], u, E_commitment, in
\* that order, and the absorbed object is unchanged.
C7_AbsorbsExactly ==
    /\ last.op = "absorb_structure" =>
          last.ro = <<Point(S.fixed_commitment)>> /\ S = last.obj
    /\ last.op = "absorb_instance" =>
          /\ Len(U.instance) >= 2
          /\ last.ro = <<Point(U.W_commitment), Base(U.instance[1]), Base(U.instance[2])>>
          /\ U = last.obj
    /\ last.op = "absorb_relaxed" =>
          /\ Len(RU.instance) >= 2
          /\ last.ro = <<Point(RU.W_commitment), Base(RU.instance[1]),
                         Base(RU.instance[2]), Base(RU.u), Point(RU.E_commitment)>>
          /\ RU = last.obj

\* C7 as amended: the structure absorbs exactly fixed_commitment; an instance
\* from plonk_instance exactly W_commitment, instance[0], instance[1]; a
\* relaxed instance W_commitment, its first min(2, len(instance)) instance
\* values, u, E_commitment, in that order: the five calls of the claim when
\* it holds two or more instance values, fewer for one from
\* RelaxedPlonkInstance::new(num_io) with num_io < 2.  The absorbed object
\* is unchanged.
C7_AbsorbOrder ==
    /\ last.op = "absorb_structure" =>
          last.ro = <<Point(S.fixed_commitment)>> /\ S = last.obj
    /\ last.op = "absorb_instance" =>
          /\ Len(U.instance) >= 2
          /\ last.ro = <<Point(U.W_commitment), Base(U.instance[1]), Base(U.instance[2])>>
          /\ U = last.obj
    /\ last.op = "absorb_relaxed" =>
          /\ last.ro = <<Point(RU.W_commitment)>>
                       \o [i \in 1 .. Min(2, Len(RU.instance)) |-> Base(RU.instance[i])]
                       \o <<Base(RU.u), Point(RU.E_commitment)>>
          /\ Len(RU.instance) >= 2 =>
                last.ro = <<Point(RU.W_commitment), Base(RU.instance[1]),
                            Base(RU.instance[2]), Base(RU.u), Point(RU.E_commitment)>>
          /\ RU = last.obj

\* a folded relaxed instance whose u and commitments differ is absorbed
C7_Witness ==
    /\ last.op = "absorb_relaxed"
    /\ nfolds > 0
    /\ Len(RU.instance) >= 2
    /\ RU.u # RU.E_commitment
    /\ RU.W_commitment # RU.E_commitment
    /\ Len(last.ro) = 5

\* C9: the failing-row counts of is_sat and is_sat_relaxed and the vectors
\* instance', W' and E' of the folds do not depend on the order in which the
\* rows or elements are processed, and element i of a result is the one
\* computed from input index i.
C9_ScheduleIndependent ==
    /\ last.op = "is_sat" =>
          last.count = Cardinality({row \in 0 .. NRows - 1 :
              eval(S.gate, row, S, to_relax_instance(U), last.W, None, None) # 0})
    /\ (last.op = "is_sat_relaxed" /\ last.out # Panic) =>
          last.count = Cardinality(FailingRows)
    /\ IsInstanceFold =>
          /\ last.out = fold_instance(last.self, last.U2, last.cross_term_commits,
                                      last.r, SeqSchedule)
          /\ \A i \in DOMAIN last.out.instance :
                last.out.instance[i] =
                    Add(last.self.instance[i], Mul(last.r, last.U2.instance[i]))
    /\ (last.op = "fold_pair" /\ last.outW # Panic) =>
          /\ last.outW = fold_witness(last.selfW, last.W2, last.cross_terms,
                                      last.r, SeqSchedule)
          /\ \A i \in DOMAIN last.outW.W :
                last.outW.W[i] = Add(last.selfW.W[i], Mul(last.r, last.W2.W[i]))
          /\ \A i \in DOMAIN last.outW.E :
                last.outW.E[i] =
                    E_fold(last.selfW.E[i], last.cross_terms, Len(last.cross_terms),
                           last.r, i).acc

\* a fold whose W' and E' each hold two different values, so that an order
\* of the elements shows
C9_Witness ==
    /\ last.op = "fold_pair" /\ last.outW # Panic
    /\ \E i, j \in DOMAIN last.outW.W : last.outW.W[i] # last.outW.W[j]
    /\ \E i, j \in DOMAIN last.outW.E : last.outW.E[i] # last.outW.E[j]

RECURSIVE WeightedSumFrom(_, _, _)
\* sum over k in kk .. d-1 of r^(k+1) * commits[k] (0-based k)
WeightedSumFrom(commits, kk, r) ==
    IF kk >= Len(commits) THEN 0
    ELSE Add(Mul(Pow(r, kk + 1), commits[kk + 1]), WeightedSumFrom(commits, kk + 1, r))

\* C10: fold returns W_commitment + r*fresh.W_commitment, instance[i] +
\* r*fresh.instance[i] for every i, u + r, y + r*fresh.y and E_commitment +
\* sum of r^(k+1) * cross_term_commits[k] (E_commitment itself for no cross
\* term), and leaves the fresh operand as it was.  The element-wise instance
\* rule is checked on every pair of two-entry vectors as well.
C10_FoldInstanceFormula ==
    /\ IsInstanceFold =>
          /\ last.out.W_commitment =
                Add(last.self.W_commitment, Mul(last.r, last.U2.W_commitment))
          /\ Len(last.out.instance) = Min(Len(last.self.instance), Len(last.U2.instance))
          /\ \A i \in DOMAIN last.out.instance :
                last.out.instance[i] =
                    Add(last.self.instance[i], Mul(last.r, last.U2.instance[i]))
          /\ last.out.u = Add(last.self.u, last.r)
          /\ last.out.y = Add(last.self.y, Mul(last.r, last.U2.y))
          /\ last.out.E_commitment =
                Add(last.self.E_commitment, WeightedSumFrom(last.cross_term_commits, 0, last.r))
          /\ (last.cross_term_commits = <<>> =>
                last.out.E_commitment = last.self.E_commitment)
          /\ U = last.U2
    /\ phase = "new" =>
          \A a, b \in [1 .. 2 -> F], r \in F :
              fold_instance([RelaxedPlonkInstance_new(2) EXCEPT !.instance = a],
                            [W_commitment |-> Identity, instance |-> b, y |-> 1 % P],
                            <<>>, r, SeqSchedule).instance
                  = [i \in 1 .. 2 |-> (a[i] + r * b[i]) % P]

\* a fold of two cross-term commitments with a challenge whose square is
\* not itself
C10_Witness ==
    /\ last.op = "fold_instance"
    /\ Len(last.cross_term_commits) = 2
    /\ last.cross_term_commits[1] # Identity /\ last.cross_term_commits[2] # Identity
    /\ Mul(last.r, last.r) # last.r
    /\ last.U2.W_commitment # Identity
    /\ last.out.E_commitment # last.self.E_commitment

RECURSIVE CrossTermSum(_, _, _, _)
\* sum over k in 0 .. n-1 of r^(k+1) * cross_terms[k][row] (0-based k and row)
CrossTermSum(cross_terms, n, r, row) ==
    IF n = 0 THEN 0
    ELSE Add(CrossTermSum(cross_terms, n - 1, r, row),
             Mul(Pow(r, n), cross_terms[n][row + 1]))

\* C11: RelaxedPlonkWitness::fold returns W'[i] = W[i] + r*fresh.W[i] for
\* every index i and E'[row] = E[row] + sum over k of r^(k+1) *
\* cross_terms[k][row] for every row of the table (the cross terms have one
\* entry per row); num_advice_columns is carried over and an empty
\* cross-term list leaves E as it was.
C11_WitnessFoldFormula ==
    last.op = "fold_pair" =>
        /\ last.outW # Panic
        /\ DOMAIN last.outW.W = DOMAIN last.selfW.W
        /\ \A i \in DOMAIN last.selfW.W :
              last.outW.W[i] = Add(last.selfW.W[i], Mul(last.r, last.W2.W[i]))
        /\ Len(last.selfW.E) = NRows /\ Len(last.outW.E) = NRows
        /\ \A row \in 0 .. NRows - 1 :
              last.outW.E[row + 1] =
                  Add(last.selfW.E[row + 1],
                      CrossTermSum(last.cross_terms, Len(last.cross_terms), last.r, row))
        /\ last.outW.num_advice_columns = last.selfW.num_advice_columns
        /\ (last.cross_terms = <<>> => last.outW.E = last.selfW.E)

\* C12: public inputs survive the adapter pipeline.  No step from
\* TableData::new on changes the first two public inputs the table holds
\* (assembly included), the instance plonk_instance returns has exactly 2
\* entries, those two values, and query_instance(column 0, row) returns the
\* value the table was given for that row.
C12_PublicInputsSurvive ==
    [][/\ Len(td.instance) >= 2 => Take(td'.instance, 2) = Take(td.instance, 2)
       /\ (U = None /\ U' # None) =>
             /\ U' # Panic
             /\ Len(U'.instance) = 2
             /\ U'.instance = Take(td.instance, 2)
       /\ (last'.op = "query_instance" /\ last'.row + 1 \in DOMAIN td.instance) =>
             last'.out = [ok |-> TRUE, value |-> td.instance[last'.row + 1]]]_vars

====
